---- MODULE Spec2Model ----
(***************************************************************************)
(* Segment type system of fints/segments/__init__.py: schema declaration   *)
(* (FinTS3SegmentMeta), name-derived identity (TYPE / VERSION), segment    *)
(* construction (FinTS3Segment.__init__) and dispatch (find_subclass).     *)
(* Strings are sequences of one-character strings so that the regular      *)
(* expression and the integer conversions are computed, not assumed.       *)
(***************************************************************************)
EXTENDS Integers, Sequences, FiniteSets, TLC

VARIABLES classes, op, call, target, seg, wire, sent, err

vars == <<classes, op, call, target, seg, wire, sent, err>>

\* ------------------------------------------------------------------ bounds
\* user classes declared on top of the shipped catalogue
MaxDeclared == 2
\* fields left out of one constructor call
MaxOmit == 2
\* the small occurrence counts of a repeated group that are tried
MaxSmallOcc == 2

\* ------------------------------------------------------------- characters
Upper == {"A","B","C","D","E","F","G","H","I","J","K","L","M",
          "N","O","P","Q","R","S","T","U","V","W","X","Y","Z"}

Digit == {"0","1","2","3","4","5","6","7","8","9"}

\* Python's None where a string is expected / where an integer is expected
None == <<"None">>

NoneInt == 0 - 1

DigitVal(c) ==
    CASE c = "0" -> 0 [] c = "1" -> 1 [] c = "2" -> 2 [] c = "3" -> 3
      [] c = "4" -> 4 [] c = "5" -> 5 [] c = "6" -> 6 [] c = "7" -> 7
      [] c = "8" -> 8 [] c = "9" -> 9

DigitChar(n) ==
    CASE n = 0 -> "0" [] n = 1 -> "1" [] n = 2 -> "2" [] n = 3 -> "3"
      [] n = 4 -> "4" [] n = 5 -> "5" [] n = 6 -> "6" [] n = 7 -> "7"
      [] n = 8 -> "8" [] n = 9 -> "9"

AllIn(s, S) == \A i \in 1..Len(s) : s[i] \in S

\* int(str) for a non-empty digit string
RECURSIVE int(_)
int(s) ==
    IF Len(s) = 0 THEN 0
    ELSE 10 * int(SubSeq(s, 1, Len(s) - 1)) + DigitVal(s[Len(s)])

\* str(int) for n >= 0
RECURSIVE str(_)
str(n) ==
    IF n < 10 THEN <<DigitChar(n)>>
    ELSE Append(str(n \div 10), DigitChar(n % 10))

\* ---------------------------------------------------- TYPE_VERSION_RE
\* length of the leading run of upper-case letters
RECURSIVE UpperRun(_)
UpperRun(s) ==
    IF Len(s) = 0 \/ s[1] \notin Upper THEN 0 ELSE 1 + UpperRun(Tail(s))

Lower == {"a","b","c","d","e","f","g","h","i","j","k","l","m",
          "n","o","p","q","r","s","t","u","v","w","x","y","z"}

\* length of the leading run of letters of either case
RECURSIVE LetterRun(_)
LetterRun(s) ==
    IF Len(s) = 0 \/ s[1] \notin (Upper \cup Lower) THEN 0 ELSE 1 + LetterRun(Tail(s))

\* the pattern written with [A-Za-z] in place of [A-Z]
TYPE_VERSION_RE_anycase(name) ==
    LET k == LetterRun(name)
    IN  IF k >= 1 /\ k < Len(name) /\ AllIn(SubSeq(name, k + 1, Len(name)), Digit)
        THEN [matched |-> TRUE, g1 |-> SubSeq(name, 1, k),
              g2 |-> SubSeq(name, k + 1, Len(name))]
        ELSE [matched |-> FALSE, g1 |-> <<>>, g2 |-> <<>>]

\* re.compile(r'^([A-Z]+)(\d+)$').match(name): the groups, or no match
TYPE_VERSION_RE(name) ==
    LET k == UpperRun(name)
    IN  IF k >= 1 /\ k < Len(name) /\ AllIn(SubSeq(name, k + 1, Len(name)), Digit)
        THEN [matched |-> TRUE, g1 |-> SubSeq(name, 1, k),
              g2 |-> SubSeq(name, k + 1, Len(name))]
        ELSE [matched |-> FALSE, g1 |-> <<>>, g2 |-> <<>>]

\* ------------------------------------------------------------ descriptors
DataElementField(n, t, req, len, maxlen) ==
    [name |-> n, kind |-> "DataElementField", type |-> t, required |-> req,
     length |-> len, max_length |-> maxlen, min_count |-> NoneInt, max_count |-> NoneInt]

DataElementGroupField(n, t, req, minc, maxc) ==
    [name |-> n, kind |-> "DataElementGroupField", type |-> t, required |-> req,
     length |-> NoneInt, max_length |-> NoneInt, min_count |-> minc, max_count |-> maxc]

CodeField(n, enum, maxlen) ==
    [name |-> n, kind |-> "CodeField", type |-> "code", required |-> TRUE,
     length |-> NoneInt, max_length |-> maxlen, min_count |-> NoneInt, max_count |-> NoneInt]

SegmentSequenceField(n) ==
    [name |-> n, kind |-> "SegmentSequenceField", type |-> "sf", required |-> TRUE,
     length |-> NoneInt, max_length |-> NoneInt, min_count |-> NoneInt, max_count |-> NoneInt]

\* an attribute that is a Field but neither of the two descriptor classes
OtherField(n) ==
    [name |-> n, kind |-> "Field", type |-> "x", required |-> TRUE,
     length |-> NoneInt, max_length |-> NoneInt, min_count |-> NoneInt, max_count |-> NoneInt]

\* isinstance(field, DataElementGroupField)
IsGroupField(f) == f.kind = "DataElementGroupField"

\* isinstance(field, (DataElementField, DataElementGroupField)); CodeField and
\* SegmentSequenceField are DataElementFields (the shipped module loads)
IsDescriptor(f) ==
    f.kind \in {"DataElementField", "CodeField", "SegmentSequenceField",
                "DataElementGroupField"}

\* ------------------------------------------------- the shipped catalogue
\* one definition per class statement: name, base class and the attributes
\* the class body declares, in order
Class(n, b, fs) == [name |-> n, base |-> b, fields |-> fs, bound |-> TRUE, linked |-> TRUE]

\* HNHBK3 with dialogue_id declared required=False
HNHBK3_optional_dialogue ==
    Class(<<"H","N","H","B","K","3">>, 0,
     <<DataElementField("message_size", "dig", TRUE, 12, NoneInt),
       DataElementField("hbci_version", "num", TRUE, NoneInt, 3),
       DataElementField("dialogue_id", "id", FALSE, NoneInt, NoneInt),
       DataElementField("message_number", "num", TRUE, NoneInt, 4),
       DataElementGroupField("reference_message", "ReferenceMessage", FALSE, NoneInt, NoneInt)>>)

HNHBK3 ==
    Class(<<"H","N","H","B","K","3">>, 0,
     <<DataElementField("message_size", "dig", TRUE, 12, NoneInt),
       DataElementField("hbci_version", "num", TRUE, NoneInt, 3),
       DataElementField("dialogue_id", "id", TRUE, NoneInt, NoneInt),
       DataElementField("message_number", "num", TRUE, NoneInt, 4),
       DataElementGroupField("reference_message", "ReferenceMessage", FALSE, NoneInt, NoneInt)>>)

HNHBS1 ==
    Class(<<"H","N","H","B","S","1">>, 0,
     <<DataElementField("message_number", "num", TRUE, NoneInt, 4)>>)

HNVSD1 ==
    Class(<<"H","N","V","S","D","1">>, 0,
     <<SegmentSequenceField("data")>>)

HNVSK3 ==
    Class(<<"H","N","V","S","K","3">>, 0,
     <<DataElementGroupField("security_profile", "SecurityProfile", TRUE, NoneInt, NoneInt),
       DataElementField("security_function", "code", TRUE, NoneInt, 3),
       CodeField("security_role", "SecurityRole", 3),
       DataElementGroupField("security_identification_details", "SecurityIdentificationDetails", TRUE, NoneInt, NoneInt),
       DataElementGroupField("security_datetime", "SecurityDateTime", TRUE, NoneInt, NoneInt),
       DataElementGroupField("encryption_algorithm", "EncryptionAlgorithm", TRUE, NoneInt, NoneInt),
       DataElementGroupField("key_name", "KeyName", TRUE, NoneInt, NoneInt),
       CodeField("compression_function", "CompressionFunction", 3),
       DataElementGroupField("certificate", "Certificate", FALSE, NoneInt, NoneInt)>>)

HNSHK4 ==
    Class(<<"H","N","S","H","K","4">>, 0,
     <<DataElementGroupField("security_profile", "SecurityProfile", TRUE, NoneInt, NoneInt),
       DataElementField("security_function", "code", TRUE, NoneInt, 3),
       DataElementField("security_reference", "an", TRUE, NoneInt, 14),
       CodeField("security_application_area", "SecurityApplicationArea", 3),
       CodeField("security_role", "SecurityRole", 3),
       DataElementGroupField("security_identification_details", "SecurityIdentificationDetails", TRUE, NoneInt, NoneInt),
       DataElementField("security_reference_number", "num", TRUE, NoneInt, 16),
       DataElementGroupField("security_datetime", "SecurityDateTime", TRUE, NoneInt, NoneInt),
       DataElementGroupField("hash_algorithm", "HashAlgorithm", TRUE, NoneInt, NoneInt),
       DataElementGroupField("signature_algorithm", "SignatureAlgorithm", TRUE, NoneInt, NoneInt),
       DataElementGroupField("key_name", "KeyName", TRUE, NoneInt, NoneInt),
       DataElementGroupField("certificate", "Certificate", FALSE, NoneInt, NoneInt)>>)

HNSHA2 ==
    Class(<<"H","N","S","H","A","2">>, 0,
     <<DataElementField("security_reference", "an", TRUE, NoneInt, 14),
       DataElementField("validation_result", "bin", FALSE, NoneInt, 512),
       DataElementGroupField("user_defined_signature", "UserDefinedSignature", FALSE, NoneInt, NoneInt)>>)

\* HIRMG2 with max_count=999 as on the other repeated groups
HIRMG2_max999 ==
    Class(<<"H","I","R","M","G","2">>, 0,
     <<DataElementGroupField("responses", "Response", TRUE, 1, 999)>>)

HIRMG2 ==
    Class(<<"H","I","R","M","G","2">>, 0,
     <<DataElementGroupField("responses", "Response", TRUE, 1, 99)>>)

HIRMS2 ==
    Class(<<"H","I","R","M","S","2">>, 0,
     <<DataElementGroupField("responses", "Response", TRUE, 1, 99)>>)

HIUPA4 ==
    Class(<<"H","I","U","P","A","4">>, 0,
     <<DataElementField("user_identifier", "id", TRUE, NoneInt, NoneInt),
       DataElementField("upd_version", "num", TRUE, NoneInt, 3),
       DataElementField("upd_usage", "code", TRUE, 1, NoneInt),
       DataElementField("username", "an", FALSE, NoneInt, 35),
       DataElementField("extension", "an", FALSE, NoneInt, 2048)>>)

HIUPD6 ==
    Class(<<"H","I","U","P","D","6">>, 0,
     <<DataElementGroupField("account_information", "AccountInformation", FALSE, NoneInt, NoneInt),
       DataElementField("iban", "an", TRUE, NoneInt, 34),
       DataElementField("customer_id", "id", TRUE, NoneInt, NoneInt),
       DataElementField("account_type", "num", TRUE, NoneInt, 2),
       DataElementField("account_currency", "cur", TRUE, NoneInt, NoneInt),
       DataElementField("name_account_owner_1", "an", TRUE, NoneInt, 27),
       DataElementField("name_account_owner_2", "an", FALSE, NoneInt, 27),
       DataElementField("account_product_name", "an", FALSE, NoneInt, 30),
       DataElementGroupField("account_limit", "AccountLimit", FALSE, NoneInt, NoneInt),
       DataElementGroupField("allowed_transactions", "AllowedTransaction", FALSE, NoneInt, 999),
       DataElementField("extension", "an", FALSE, NoneInt, 2048)>>)

HISYN4 ==
    Class(<<"H","I","S","Y","N","4">>, 0,
     <<DataElementField("customer_system_id", "id", TRUE, NoneInt, NoneInt),
       DataElementField("message_number", "num", FALSE, NoneInt, 4),
       DataElementField("security_reference_signature_key", "num", FALSE, NoneInt, 16),
       DataElementField("security_reference_digital_signature", "num", FALSE, NoneInt, 16)>>)

ParameterSegment ==
    Class(<<"P","a","r","a","m","e","t","e","r","S","e","g","m","e","n","t">>, 0,
     <<DataElementField("max_number_tasks", "num", TRUE, NoneInt, 3),
       DataElementField("min_number_signatures", "num", TRUE, 1, NoneInt),
       DataElementField("security_class", "num", TRUE, 1, NoneInt)>>)

HITANSBase ==
    Class(<<"H","I","T","A","N","S","B","a","s","e">>, 12,
     <<>>)

HITANS1 ==
    Class(<<"H","I","T","A","N","S","1">>, 13,
     <<DataElementGroupField("parameter", "ParameterTwostepTAN1", TRUE, NoneInt, NoneInt)>>)

HITANS2 ==
    Class(<<"H","I","T","A","N","S","2">>, 13,
     <<DataElementGroupField("parameter", "ParameterTwostepTAN2", TRUE, NoneInt, NoneInt)>>)

HITANS3 ==
    Class(<<"H","I","T","A","N","S","3">>, 13,
     <<DataElementGroupField("parameter", "ParameterTwostepTAN3", TRUE, NoneInt, NoneInt)>>)

HITANS4 ==
    Class(<<"H","I","T","A","N","S","4">>, 13,
     <<DataElementGroupField("parameter", "ParameterTwostepTAN4", TRUE, NoneInt, NoneInt)>>)

HITANS5 ==
    Class(<<"H","I","T","A","N","S","5">>, 13,
     <<DataElementGroupField("parameter", "ParameterTwostepTAN5", TRUE, NoneInt, NoneInt)>>)

HITANS6 ==
    Class(<<"H","I","T","A","N","S","6">>, 13,
     <<DataElementGroupField("parameter", "ParameterTwostepTAN6", TRUE, NoneInt, NoneInt)>>)

HIPINS1 ==
    Class(<<"H","I","P","I","N","S","1">>, 12,
     <<DataElementGroupField("parameter", "ParameterPinTan", TRUE, NoneInt, NoneInt)>>)

HIBPA3 ==
    Class(<<"H","I","B","P","A","3">>, 0,
     <<DataElementField("bpd_version", "num", TRUE, NoneInt, 3),
       DataElementGroupField("bank_identifier", "BankIdentifier", TRUE, NoneInt, NoneInt),
       DataElementField("bank_name", "an", TRUE, NoneInt, 60),
       DataElementField("number_tasks", "num", TRUE, NoneInt, 3),
       DataElementGroupField("supported_languages", "SupportedLanguages2", TRUE, NoneInt, NoneInt),
       DataElementGroupField("supported_hbci_version", "SupportedHBCIVersions2", TRUE, NoneInt, NoneInt),
       DataElementField("max_message_length", "num", FALSE, NoneInt, 4),
       DataElementField("min_timeout", "num", FALSE, NoneInt, 4),
       DataElementField("max_timeout", "num", FALSE, NoneInt, 4)>>)

HISPA1 ==
    Class(<<"H","I","S","P","A","1">>, 0,
     <<DataElementGroupField("accounts", "AccountInternational", FALSE, NoneInt, 999)>>)

Catalogue ==
    <<HNHBK3, HNHBS1, HNVSD1, HNVSK3, HNSHK4, HNSHA2,
      HIRMG2, HIRMS2, HIUPA4, HIUPD6, HISYN4, ParameterSegment,
      HITANSBase, HITANS1, HITANS2, HITANS3, HITANS4, HITANS5,
      HITANS6, HIPINS1, HIBPA3, HISPA1>>


\* ------------------------------------------------------------- group types
\* the nested schema (field.type._fields) of a group descriptor
SegmentHeaderFields ==
    <<DataElementField("type", "an", TRUE, NoneInt, 6),
      DataElementField("number", "num", TRUE, NoneInt, 3),
      DataElementField("version", "num", TRUE, NoneInt, 3),
      DataElementField("reference", "num", FALSE, NoneInt, 3)>>

GroupFields(t) ==
    CASE t = "SegmentHeader" -> SegmentHeaderFields
      [] t = "BadGroup" ->
            <<DataElementField("a", "an", TRUE, NoneInt, NoneInt), OtherField("b")>>
      [] t = "NestBad" ->
            <<DataElementGroupField("g", "BadGroup", TRUE, NoneInt, NoneInt)>>
      [] OTHER ->
            <<DataElementField("e1", "an", TRUE, NoneInt, NoneInt),
              DataElementField("e2", "an", TRUE, NoneInt, NoneInt),
              DataElementField("e3", "an", FALSE, NoneInt, NoneInt)>>

\* FinTS3Segment's own attribute
header == DataElementGroupField("header", "SegmentHeader", TRUE, NoneInt, NoneInt)

\* cls._fields: the attributes of the bases first, then the class body's, in
\* declaration order; class 0 is FinTS3Segment itself
RECURSIVE Fields(_, _)
Fields(cs, c) ==
    IF c = 0 THEN <<header>> ELSE Fields(cs, cs[c].base) \o cs[c].fields

\* --------------------------------------------- FinTS3SegmentMeta
\* TRUE when _check_fields_recursive returns, FALSE when it raises TypeError
RECURSIVE check_fields_recursive(_)
check_fields_recursive(fs) ==
    \A i \in 1..Len(fs) :
        /\ IsDescriptor(fs[i])
        /\ IsGroupField(fs[i]) => check_fields_recursive(GroupFields(fs[i].type))

\* ------------------------------------------------------- TYPE / VERSION
TYPE(cs, c) ==
    LET match == TYPE_VERSION_RE(IF c = 0 THEN <<"F","i","n","T","S","3","S","e","g","m","e","n","t">> ELSE cs[c].name)
    IN  IF match.matched THEN match.g1 ELSE None

VERSION(cs, c) ==
    LET match == TYPE_VERSION_RE(IF c = 0 THEN <<"F","i","n","T","S","3","S","e","g","m","e","n","t">> ELSE cs[c].name)
    IN  IF match.matched THEN int(match.g2) ELSE NoneInt

\* ------------------------------------------------------ subclass scan
\* cls.__subclasses__(): the linked direct subclasses, in declaration order
subclasses(cs, c) ==
    SelectSeq([i \in 1..Len(cs) |-> i], LAMBDA i : cs[i].base = c /\ cs[i].linked)

\* SubclassesMixin._all_subclasses: every subclass, each after its own subclasses
RECURSIVE all_subclasses(_, _)
RECURSIVE all_subclasses_of(_, _)
all_subclasses_of(cs, direct) ==
    IF Len(direct) = 0 THEN <<>>
    ELSE all_subclasses(cs, Head(direct)) \o <<Head(direct)>>
         \o all_subclasses_of(cs, Tail(direct))

all_subclasses(cs, c) == all_subclasses_of(cs, subclasses(cs, c))

\* ------------------------------------------------------ SegmentHeader
SegmentHeader(t, n, v) == [type |-> t, number |-> n, version |-> v, reference |-> NoneInt]

IsInt(tok) == Len(tok) >= 1 /\ AllIn(tok, Digit)

\* SegmentHeader.naive_parse(group): TRUE when it raises ParseError
naive_parse_fails(g) ==
    \/ Len(g) < 3
    \/ ~IsInt(g[2])
    \/ ~IsInt(g[3])
    \/ Len(g) >= 4 /\ ~IsInt(g[4])

naive_parse(g) ==
    [type |-> g[1], number |-> int(g[2]), version |-> int(g[3]),
     reference |-> IF Len(g) >= 4 THEN int(g[4]) ELSE NoneInt]

\* the inverse: the reference position is left out when unset
encode(h) ==
    <<IF h.type = None THEN <<>> ELSE h.type,
      IF h.number = NoneInt THEN <<>> ELSE str(h.number),
      IF h.version = NoneInt THEN <<>> ELSE str(h.version)>>
    \o (IF h.reference = NoneInt THEN <<>> ELSE <<str(h.reference)>>)

\* ------------------------------------------------------ find_subclass
\* the loop of lines 75-77 over the scan, the last match staying in target_cls
RECURSIVE scan(_, _, _, _)
scan(cs, h, todo, target_cls) ==
    IF Len(todo) = 0 THEN target_cls
    ELSE LET possible_cls == Head(todo)
         IN  scan(cs, h, Tail(todo),
                  IF TYPE(cs, possible_cls) = h.type /\ VERSION(cs, possible_cls) = h.version
                  THEN possible_cls ELSE target_cls)

\* the same loop keeping the first match
RECURSIVE scan_first(_, _, _, _)
scan_first(cs, h, todo, target_cls) ==
    IF Len(todo) = 0 THEN target_cls
    ELSE LET possible_cls == Head(todo)
         IN  scan_first(cs, h, Tail(todo),
                  IF target_cls = NoneInt /\ TYPE(cs, possible_cls) = h.type
                     /\ VERSION(cs, possible_cls) = h.version
                  THEN possible_cls ELSE target_cls)

find_subclass_first(cs, cls, segment) ==
    LET h == naive_parse(segment[1])
        target_cls == scan_first(cs, h, all_subclasses(cs, cls), NoneInt)
    IN  IF target_cls = NoneInt THEN cls ELSE target_cls

\* the same loop comparing the type only
RECURSIVE scan_type_only(_, _, _, _)
scan_type_only(cs, h, todo, target_cls) ==
    IF Len(todo) = 0 THEN target_cls
    ELSE LET possible_cls == Head(todo)
         IN  scan_type_only(cs, h, Tail(todo),
                  IF TYPE(cs, possible_cls) = h.type
                  THEN possible_cls ELSE target_cls)

find_subclass_type_only(cs, cls, segment) ==
    LET h == naive_parse(segment[1])
        target_cls == scan_type_only(cs, h, all_subclasses(cs, cls), NoneInt)
    IN  IF target_cls = NoneInt THEN cls ELSE target_cls

\* find_subclass falling back to the loop variable instead of cls
find_subclass_leaky(cs, cls, segment) ==
    LET h == naive_parse(segment[1])
        order == all_subclasses(cs, cls)
        target_cls == scan(cs, h, order, NoneInt)
    IN  IF target_cls = NoneInt
        THEN (IF Len(order) = 0 THEN cls ELSE order[Len(order)])
        ELSE target_cls

\* FinTS3Segment.find_subclass(segment), called on class cls
find_subclass(cs, cls, segment) ==
    LET h == naive_parse(segment[1])
        target_cls == scan(cs, h, all_subclasses(cs, cls), NoneInt)
    IN  IF target_cls = NoneInt THEN cls ELSE target_cls

\* ------------------------------------------------------------- Container
\* A field's value is the sequence of its occurrences: <<>> when unset, one
\* element for a single field, any number for a repeated group.  A scalar
\* occurrence is an integer ('num') or a string; a SegmentHeader occurrence is
\* the header record; any other group occurrence is the sequence of its
\* elements.  A token group is a sequence of tokens, <<>> the empty position.
NoError == [kind |-> "", field |-> ""]

Error(k, f) == [kind |-> k, field |-> f]

IsRepeated(d) == IsGroupField(d) /\ d.max_count # NoneInt /\ d.max_count > 1

MinOcc(d) ==
    IF d.min_count # NoneInt THEN d.min_count ELSE IF d.required THEN 1 ELSE 0

MaxOcc(d) == IF d.max_count # NoneInt THEN d.max_count ELSE 1

\* the error a field with n occurrences raises, "" when the count is allowed
count_error(d, n) ==
    IF n < MinOcc(d) THEN "MissingFieldError"
    ELSE IF n > MaxOcc(d) THEN "ValidationError" ELSE ""

\* number of characters of a scalar value on the wire
WireLen(d, v) == IF d.type = "num" THEN Len(str(v)) ELSE Len(v)

\* length / max_length of a scalar descriptor
length_ok(d, v) ==
    /\ d.length # NoneInt => WireLen(d, v) = d.length
    /\ d.max_length # NoneInt => WireLen(d, v) <= d.max_length

NumRequired(fs) == Len(SelectSeq(fs, LAMBDA f : f.required))

\* a token group has the shape of descriptor d
Matches(d, g) ==
    IF d.type = "SegmentHeader" THEN ~naive_parse_fails(g)
    ELSE IF IsGroupField(d)
    THEN /\ Len(g) >= NumRequired(GroupFields(d.type))
         /\ Len(g) <= Len(GroupFields(d.type))
         /\ \A i \in 1..Len(g) : Len(g[i]) >= 1
    ELSE /\ Len(g) = 1
         /\ Len(g[1]) >= 1
         /\ d.type \in {"num", "dig"} => AllIn(g[1], Digit)
         /\ length_ok(d, IF d.type = "num" THEN int(g[1]) ELSE g[1])

\* descriptor.parse(token group) -> value
parse_value(d, g) ==
    IF d.type = "SegmentHeader" THEN naive_parse(g)
    ELSE IF IsGroupField(d) THEN g
    ELSE IF d.type = "num" THEN int(g[1]) ELSE g[1]

\* descriptor.serialize(value) -> token group
serialize_value(d, v) ==
    IF d.type = "SegmentHeader" THEN encode(v)
    ELSE IF IsGroupField(d) THEN v
    ELSE IF d.type = "num" THEN <<str(v)>> ELSE <<v>>

\* how many consecutive groups from position p a repeated descriptor takes
RECURSIVE Greedy(_, _, _, _)
Greedy(d, groups, p, n) ==
    IF p > Len(groups) \/ n >= MaxOcc(d) \/ ~Matches(d, groups[p]) THEN n
    ELSE Greedy(d, groups, p + 1, n + 1)

\* Container parse: descriptors ds from index i consume groups from position p
RECURSIVE parse_fields(_, _, _, _, _)
parse_fields(ds, i, groups, p, acc) ==
    IF i > Len(ds)
    THEN [err |-> NoError, vals |-> acc, additional |-> SubSeq(groups, p, Len(groups))]
    ELSE LET d == ds[i] IN
         IF IsRepeated(d)
         THEN LET n == Greedy(d, groups, p, 0) IN
              IF n < MinOcc(d)
              THEN [err |-> Error("MissingFieldError", d.name), vals |-> acc, additional |-> <<>>]
              ELSE parse_fields(ds, i + 1, groups, p + n,
                       Append(acc, [k \in 1..n |-> parse_value(d, groups[p + k - 1])]))
         ELSE IF p > Len(groups) \/ groups[p] = <<>>
         THEN IF d.required
              THEN [err |-> Error("MissingFieldError", d.name), vals |-> acc, additional |-> <<>>]
              ELSE parse_fields(ds, i + 1, groups, IF p > Len(groups) THEN p ELSE p + 1,
                                Append(acc, <<>>))
         ELSE IF ~Matches(d, groups[p])
         THEN [err |-> Error(IF d.type = "SegmentHeader" THEN "ParseError" ELSE "ValidationError",
                             d.name),
               vals |-> acc, additional |-> <<>>]
         ELSE parse_fields(ds, i + 1, groups, p + 1, Append(acc, <<parse_value(d, groups[p])>>))

\* the token groups of the fields from index i on, one position per single
\* field and one per occurrence of a repeated group
RECURSIVE serialize_fields(_, _, _)
serialize_fields(ds, vals, i) ==
    IF i > Len(ds) THEN <<>>
    ELSE LET d == ds[i]
             here == IF IsRepeated(d)
                     THEN [k \in 1..Len(vals[i]) |-> serialize_value(d, vals[i][k])]
                     ELSE IF vals[i] = <<>> THEN << <<>> >>
                     ELSE <<serialize_value(d, vals[i][1])>>
         IN  here \o serialize_fields(ds, vals, i + 1)

RECURSIVE StripTrailingEmpty(_)
StripTrailingEmpty(groups) ==
    IF Len(groups) > 0 /\ groups[Len(groups)] = <<>>
    THEN StripTrailingEmpty(SubSeq(groups, 1, Len(groups) - 1))
    ELSE groups

\* serialize_segment(segment) -> token groups
serialize_segment(cs, s) ==
    LET body == serialize_fields(Fields(cs, s.cls), s.vals, 1)
    IN  IF s.additional = <<>> THEN StripTrailingEmpty(body) ELSE body \o s.additional

NoSeg == [cls |-> NoneInt, vals |-> <<>>, additional |-> <<>>]

\* parse_segment(token groups): the header is naive-parsed from the first group,
\* find_subclass picks the schema, Container parses with it
parse_segment(cs, groups) ==
    IF Len(groups) = 0 \/ naive_parse_fails(groups[1])
    THEN [err |-> Error("ParseError", "header"), seg |-> NoSeg]
    ELSE LET clazz == find_subclass(cs, 0, groups)
             r == parse_fields(Fields(cs, clazz), 1, groups, 1, <<>>)
         IN  IF r.err # NoError THEN [err |-> r.err, seg |-> NoSeg]
             ELSE [err |-> NoError,
                   seg |-> [cls |-> clazz, vals |-> r.vals, additional |-> r.additional]]

\* Container.__init__(*args, **kwargs): positional values fill the leading
\* fields, keyword values the named ones; every field but the header is
\* validated, the first failing field in declared order raising
RECURSIVE first_error(_, _, _)
first_error(ds, vals, i) ==
    IF i > Len(ds) THEN NoError
    ELSE LET d == ds[i]
             ce == count_error(d, Len(vals[i]))
         IN  IF ce # "" THEN Error(ce, d.name)
             ELSE IF ~IsGroupField(d) /\ \E k \in 1..Len(vals[i]) : ~length_ok(d, vals[i][k])
             THEN Error("ValidationError", d.name)
             ELSE first_error(ds, vals, i + 1)

Container_init(cs, cls, args, kwargs) ==
    LET ds == Fields(cs, cls)
        vals == [i \in 1..Len(ds) |->
                    IF i <= Len(args) THEN args[i]
                    ELSE IF ds[i].name \in DOMAIN kwargs THEN kwargs[ds[i].name]
                    ELSE <<>>]
        e == first_error(ds, vals, 2)
    IN  IF e # NoError THEN [err |-> e, seg |-> NoSeg]
        ELSE [err |-> NoError, seg |-> [cls |-> cls, vals |-> vals, additional |-> <<>>]]

\* ------------------------------------------------ FinTS3Segment.__init__
Without(f, k) == [n \in DOMAIN f \ {k} |-> f[n]]

\* __init__ putting the auto-filled header's version where the number belongs
init_swapped(cs, cls, args, kwargs) ==
    LET kw == IF "header" \in DOMAIN kwargs THEN kwargs
              ELSE kwargs @@ ("header" :> <<SegmentHeader(TYPE(cs, cls), VERSION(cs, cls), NoneInt)>>)
        args1 == <<kw["header"]>> \o args
    IN  Container_init(cs, cls, args1, Without(kw, "header"))

init(cs, cls, args, kwargs) ==
    LET kw == IF "header" \in DOMAIN kwargs THEN kwargs
              ELSE kwargs @@ ("header" :> <<SegmentHeader(TYPE(cs, cls), NoneInt, VERSION(cs, cls))>>)
        args1 == <<kw["header"]>> \o args
    IN  Container_init(cs, cls, args1, Without(kw, "header"))

\* ---------------------------------------------------------------- inputs
\* class statements a program adds to the shipped catalogue: name, base, body
GoodFlat == <<DataElementField("a", "an", TRUE, NoneInt, 3)>>

GoodNested ==
    <<DataElementField("a", "num", TRUE, NoneInt, 3),
      DataElementGroupField("g", "GoodGroup", FALSE, NoneInt, NoneInt)>>

BadTop == <<DataElementField("a", "an", TRUE, NoneInt, 3), OtherField("b")>>

BadDepth2 == <<DataElementGroupField("g", "BadGroup", TRUE, NoneInt, NoneInt)>>

BadDepth3 ==
    <<DataElementField("a", "an", TRUE, NoneInt, 3),
      DataElementGroupField("g", "NestBad", FALSE, NoneInt, NoneInt)>>

ParameterSegmentIndex == CHOOSE i \in 1..Len(Catalogue) : Catalogue[i] = ParameterSegment

\* a class whose name differs from HIRMG2 and whose (TYPE, VERSION) does not
HIRMG02 == [name |-> <<"H","I","R","M","G","0","2">>, base |-> 0, fields |-> GoodNested]

Declarations ==
    { [name |-> <<"H","I","R","M","G","2">>, base |-> 0, fields |-> GoodFlat],
      HIRMG02,
      [name |-> <<"Z","Z","1">>, base |-> 0, fields |-> GoodNested],
      [name |-> <<"Z","z","1">>, base |-> ParameterSegmentIndex, fields |-> GoodFlat],
      [name |-> <<"Z","Z","1","2">>, base |-> ParameterSegmentIndex, fields |-> BadTop],
      [name |-> <<"Z","1","Z","1">>, base |-> 0, fields |-> BadDepth2],
      [name |-> <<"H","I","T","A","N","S","6">>, base |-> 0, fields |-> BadDepth3] }

\* token groups an external tokenizer hands over
HeaderGroups ==
    { <<<<"H","I","R","M","G">>, <<"1">>, <<"2">>>>,
      <<<<"H","I","R","M","G">>, <<"1","2">>, <<"9","9">>>>,
      <<<<"H","I","R","M","S">>, <<"3">>, <<"2">>, <<"1">>>>,
      <<<<"H","I","T","A","N","S">>, <<"4">>, <<"6">>>>,
      <<<<"H","I","T","A","N","S">>, <<"4">>, <<"7">>>>,
      <<<<"H","N","H","B","K">>, <<"1">>, <<"3">>>>,
      <<<<"Z","Z","Z","Z">>, <<"2">>, <<"9","9">>>>,
      <<<<"Z","Z","Z","Z">>, <<"2">>, <<"9","9">>, <<"1">>>>,
      <<<<"Z","Z">>, <<"1">>, <<"1">>>>,
      <<<<"Z","z">>, <<"1">>, <<"1">>>>,
      <<<<"Z","Z">>, <<"5">>, <<"1","2">>>>,
      <<<<"Z","Z">>, <<"5">>, <<"3">>>>,
      <<<<"H","I","R","M","G">>, <<"1">>>>,
      <<<<"H","I","R","M","G">>, <<"x">>, <<"2">>>>,
      <<<<"H","I","R","M","G">>, <<"1">>, <<"x">>>> }

Bodies ==
    { <<>>,
      << <<<<"X">>>> >>,
      << <<<<"0","0","7">>, <<"t">>>>, <<>>, <<<<"Y">>>> >>,
      << <<<<"9">>, <<"o","k">>>>, <<<<"9">>, <<"n","o">>, <<"p">>>> >> }

ExternalSegments == { <<h>> \o b : h \in HeaderGroups, b \in Bodies }

\* segments of which only the header matters
HeaderSegments == { <<h>> \o << <<<<"X">>>> >> : h \in HeaderGroups }

\* sample values of a descriptor
RECURSIVE Pow10(_)
Pow10(n) == IF n = 0 THEN 1 ELSE 10 * Pow10(n - 1)

Limit(d) == IF d.length # NoneInt THEN d.length ELSE d.max_length

Sample(d, k) ==
    IF IsGroupField(d)
    THEN IF k % 2 = 0 THEN <<<<"r">>, str(k), <<"t">>>> ELSE <<<<"r">>, str(k)>>
    ELSE IF d.type = "num" THEN (IF Limit(d) = 1 THEN 7 ELSE 42)
    ELSE IF d.type = "dig" THEN [j \in 1..d.length |-> IF j = d.length THEN "3" ELSE "0"]
    ELSE IF Limit(d) = 1 THEN <<"J">> ELSE <<"A","b">>

TooLongAble(d) == ~IsGroupField(d) /\ Limit(d) # NoneInt /\ Limit(d) <= 12

TooLong(d) ==
    IF d.type = "num" THEN Pow10(Limit(d)) ELSE [j \in 1..(Limit(d) + 1) |-> "9"]

IndexOf(ds, n) == CHOOSE i \in 1..Len(ds) : ds[i].name = n

\* the occurrence counts tried for a repeated group: a few small ones, those
\* around its own max_count, and for a group that must occur those around 99
Counts(d) ==
    (0..MaxSmallOcc) \cup
    (IF MaxOcc(d) <= 99 THEN {MaxOcc(d) - 1, MaxOcc(d), MaxOcc(d) + 1} ELSE {}) \cup
    (IF MinOcc(d) >= 1 THEN {99, 100} ELSE {})

\* segment numbers a caller assigns
Numbers == {1, 12}

NoCall == [cls |-> NoneInt, explicit |-> FALSE, args |-> <<>>, kwargs |-> <<>>]

\* ------------------------------------------------------------------ state
\* classes : every class object created by a class statement, in order
\* op      : the operation the program performed last
\* call    : the arguments of the last constructor call
\* target  : the class find_subclass returned last
\* seg     : the segment instance constructed or parsed last
\* wire    : the token groups serialized or received last
\* sent    : the segment whose serialization wire holds, NoSeg otherwise
\* err     : the exception the last operation raised, NoError if none
Loaded == classes = Catalogue

Fresh ==
    /\ op = "load"
    /\ call = NoCall
    /\ target = NoneInt
    /\ seg = NoSeg
    /\ wire = <<>>
    /\ sent = NoSeg
    /\ err = NoError

Init == Loaded /\ Fresh

UserClass(d) ==
    [name |-> d.name, base |-> d.base, fields |-> d.fields, bound |-> TRUE, linked |-> TRUE]

\* registries a program works with once its own schemas are declared
InitMsg ==
    /\ classes \in { Catalogue, Append(Catalogue, UserClass(HIRMG02)) }
    /\ Fresh

\* ---------------------------------------------------------------- actions
\* FinTS3SegmentMeta.__new__: type.__new__ creates the class and links it to its
\* base (line 43), then the check runs (line 44); when it raises, the class
\* statement binds no name and the class object stays linked until collected
new(cs, d) ==
    Append(cs, [name |-> d.name, base |-> d.base, fields |-> d.fields,
                bound |-> check_fields_recursive(Fields(cs, d.base) \o d.fields),
                linked |-> TRUE])

Declare(d) ==
    /\ Len(classes) < Len(Catalogue) + MaxDeclared
    /\ classes' = new(classes, d)
    /\ op' = "declare"
    /\ err' = IF classes'[Len(classes')].bound THEN NoError ELSE Error("TypeError", "")
    /\ call' = NoCall
    /\ target' = NoneInt
    /\ wire' = <<>>
    /\ seg' = NoSeg
    /\ sent' = NoSeg

\* the garbage collector frees a class object nothing refers to
Collect(c) ==
    /\ ~classes[c].bound
    /\ classes[c].linked
    /\ target # c
    /\ seg.cls # c
    /\ sent.cls # c
    /\ classes' = [classes EXCEPT ![c].linked = FALSE]
    /\ op' = "collect"
    /\ UNCHANGED <<call, target, seg, wire, sent, err>>

\* the tokenizer delivers a segment; a delivery replaces the one before it and
\* commutes with a collection, so neither order is explored twice
Receive(groups) ==
    /\ op \notin {"receive", "collect"}
    /\ wire' = groups
    /\ op' = "receive"
    /\ call' = NoCall
    /\ target' = NoneInt
    /\ seg' = NoSeg
    /\ sent' = NoSeg
    /\ err' = NoError
    /\ UNCHANGED classes

\* find_subclass remembering an unknown header as a new generic class
Dispatch_registering ==
    /\ op \in {"receive", "dispatch"}
    /\ Len(wire) > 0
    /\ op' = "dispatch"
    /\ IF naive_parse_fails(wire[1])
       THEN err' = Error("ParseError", "header") /\ target' = NoneInt /\ classes' = classes
       ELSE /\ err' = NoError
            /\ target' = find_subclass(classes, 0, wire)
            /\ classes' = IF target' = 0 /\ Len(classes) < Len(Catalogue) + MaxDeclared
                          THEN Append(classes, [name |-> wire[1][1] \o wire[1][3], base |-> 0,
                                                fields |-> <<>>, bound |-> TRUE, linked |-> TRUE])
                          ELSE classes
    /\ UNCHANGED <<call, seg, wire, sent>>

\* FinTS3Segment.find_subclass(wire)
Dispatch ==
    /\ op \in {"receive", "dispatch"}
    /\ Len(wire) > 0
    /\ op' = "dispatch"
    /\ IF naive_parse_fails(wire[1])
       THEN err' = Error("ParseError", "header") /\ target' = NoneInt
       ELSE err' = NoError /\ target' = find_subclass(classes, 0, wire)
    /\ UNCHANGED <<classes, call, seg, wire, sent>>

\* explicit headers a caller passes to a constructor of class c
ExplicitHeaders(c) ==
    { SegmentHeader(<<"H","I","R","M","G">>, 1, 2),
      [SegmentHeader(<<"Z","Z","Z","Z">>, 2, 99) EXCEPT !.reference = 1] }
    \cup (IF TYPE(classes, c) # None
          THEN { SegmentHeader(TYPE(classes, c), 3, VERSION(classes, c)) } ELSE {})

\* the value given for field i of ds in a call that omits the fields in omit,
\* gives field bad an over-long value and occ occurrences to repeated groups
Given(ds, i, omit, bad, occ) ==
    IF i \in omit THEN <<>>
    ELSE IF IsRepeated(ds[i]) THEN [k \in 1..occ |-> Sample(ds[i], k)]
    ELSE IF i = bad THEN <<TooLong(ds[i])>>
    ELSE <<Sample(ds[i], 1)>>

\* cls(*args, **kwargs): explicit is <<>> or <<header>>, pos the number of
\* values passed positionally
Construct(c, explicit, pos, omit, bad, occ) ==
    LET ds == Fields(classes, c)
        args == [i \in 1..pos |-> Given(ds, i + 1, omit, bad, occ)]
        named == { i \in (2 + pos)..Len(ds) : i \notin omit }
        kw == [n \in { ds[i].name : i \in named } |->
                  Given(ds, IndexOf(ds, n), omit, bad, occ)]
        kwargs == IF explicit = <<>> THEN kw ELSE kw @@ ("header" :> explicit)
        r == init(classes, c, args, kwargs)
    IN  /\ op' = "construct"
        /\ call' = [cls |-> c, explicit |-> explicit # <<>>, args |-> args, kwargs |-> kwargs]
        /\ seg' = r.seg
        /\ err' = r.err
        /\ target' = NoneInt
        /\ wire' = <<>>
        /\ sent' = NoSeg
        /\ UNCHANGED classes

ConstructAny ==
    \E c \in 0..Len(classes) :
        /\ (IF c = 0 THEN TRUE ELSE classes[c].bound)
        /\ LET ds == Fields(classes, c)
               rep == { i \in 2..Len(ds) : IsRepeated(ds[i]) }
           IN  \E explicit \in {<<>>} \cup { <<h>> : h \in ExplicitHeaders(c) },
                  pos \in {0, 1},
                  omit \in SUBSET (2..Len(ds)),
                  bad \in {0} \cup { i \in 2..Len(ds) : TooLongAble(ds[i]) } :
                  /\ pos < Len(ds)
                  /\ Cardinality(omit) <= MaxOmit
                  /\ pos # 0 => omit = {}
                  /\ bad # 0 => omit = {} /\ pos = 0
                  /\ \E occ \in (IF rep = {} THEN {1}
                                 ELSE UNION { Counts(ds[i]) : i \in rep }) :
                        Construct(c, explicit, pos, omit, bad, occ)

\* the caller numbers the segment before it is sent
Number(n) ==
    /\ op = "construct"
    /\ seg # NoSeg
    /\ seg.vals[1][1].number = NoneInt
    /\ seg' = [seg EXCEPT !.vals[1][1].number = n]
    /\ op' = "number"
    /\ UNCHANGED <<classes, call, target, wire, sent, err>>

\* serialize_segment(seg)
Serialize ==
    /\ op \in {"construct", "number"}
    /\ seg # NoSeg
    /\ wire' = serialize_segment(classes, seg)
    /\ sent' = seg
    /\ op' = "serialize"
    /\ UNCHANGED <<classes, call, target, seg, err>>

\* the peer sends fewer groups: the last one is missing
Truncate ==
    /\ op \in {"serialize", "truncate"}
    /\ ~call.explicit
    /\ call.args = <<>>
    /\ Len(wire) <= Len(Fields(classes, call.cls)) + MaxSmallOcc
    /\ Len(wire) > 1
    /\ wire' = SubSeq(wire, 1, Len(wire) - 1)
    /\ sent' = NoSeg
    /\ op' = "truncate"
    /\ UNCHANGED <<classes, call, target, seg, err>>

\* the peer leaves one position empty
Blank(i) ==
    /\ op = "serialize"
    /\ ~call.explicit
    /\ call.args = <<>>
    /\ Len(wire) <= Len(Fields(classes, call.cls)) + MaxSmallOcc
    /\ i > 1
    /\ wire[i] # <<>>
    /\ wire' = [wire EXCEPT ![i] = <<>>]
    /\ sent' = NoSeg
    /\ op' = "blank"
    /\ UNCHANGED <<classes, call, target, seg, err>>

\* parse_segment(wire)
ParseSegment ==
    /\ op \in {"receive", "serialize", "truncate", "blank"}
    /\ Len(wire) > 0
    /\ LET r == parse_segment(classes, wire)
       IN  seg' = r.seg /\ err' = r.err
    /\ op' = "parse"
    /\ UNCHANGED <<classes, call, target, wire, sent>>

\* --------------------------------------------------------- specifications
\* schema declaration, collection and dispatch
Next ==
    \/ \E d \in Declarations : Declare(d)
    \/ \E c \in 1..Len(classes) : Collect(c)
    \/ \E g \in HeaderSegments : Receive(g)
    \/ Dispatch

Spec == Init /\ [][Next]_vars

\* segments built, sent, received and parsed over a populated registry
NextMsg ==
    \/ op = "load" /\ ConstructAny
    \/ \E n \in Numbers : Number(n)
    \/ Serialize
    \/ Truncate
    \/ \E i \in 1..Len(wire) : Blank(i)
    \/ op = "load" /\ \E g \in ExternalSegments : Receive(g)
    \/ ParseSegment

SpecMsg == InitMsg /\ [][NextMsg]_vars

\* ================================================================ claims
\* the classes the subclass scan of FinTS3Segment reaches
Scanned == { c \in 1..Len(classes) : classes[c].linked }

NameOf(c) == classes[c].name

\* the classes whose (TYPE, VERSION) is that of header h
Holders(h) ==
    { c \in Scanned : TYPE(classes, c) = h.type /\ VERSION(classes, c) = h.version }

Dispatched == op = "dispatch" /\ err = NoError

\* C1: a dispatched header resolves to a scanned class whose TYPE and VERSION
\* are the header's when one exists, and to FinTS3Segment itself (the generic
\* fallback) when none does; HIRMG:2 resolves to a class named HIRMG with
\* version 2, ZZZZ:99 to the fallback.
C1_Dispatch ==
    Dispatched =>
        LET h == naive_parse(wire[1])
        IN  /\ Holders(h) # {} => target \in Holders(h)
            /\ Holders(h) = {} => target = 0
            /\ (h.type = <<"H","I","R","M","G">> /\ h.version = 2)
                  => /\ target # 0
                     /\ TYPE(classes, target) = <<"H","I","R","M","G">>
                     /\ VERSION(classes, target) = 2
            /\ (h.type = <<"Z","Z","Z","Z">> /\ h.version = 99) => target = 0

C1_Witness ==
    /\ Dispatched
    /\ naive_parse(wire[1]).type = <<"H","I","R","M","G">>
    /\ naive_parse(wire[1]).version = 99
    /\ target = 0

\* C3 as stated: no two scanned schemas ever share a (TYPE, VERSION) key.
C3_NoSharedKey ==
    \A c1, c2 \in Scanned :
        (c1 # c2 /\ classes[c1].bound /\ classes[c2].bound /\ TYPE(classes, c1) # None)
            => ~(TYPE(classes, c1) = TYPE(classes, c2)
                 /\ VERSION(classes, c1) = VERSION(classes, c2))

\* the last element of the scan holding the header's key
LastHolder(h) ==
    LET order == all_subclasses(classes, 0)
        hits == SelectSeq(order, LAMBDA c : c \in Holders(h))
    IN  hits[Len(hits)]

\* C3 amended: a class statement whose (TYPE, VERSION) is already held raises
\* nothing and leaves both classes in the scan; dispatch of a key held by one
\* or several classes returns the holder the scan meets last.
C3_LastWins ==
    /\ (op = "declare" /\ check_fields_recursive(Fields(classes, Len(classes))))
          => /\ err = NoError
             /\ classes[Len(classes)].bound
             /\ Len(classes) \in Scanned
    /\ Dispatched =>
          LET h == naive_parse(wire[1])
          IN  Holders(h) # {} => target = LastHolder(h)

C3_Witness ==
    /\ Dispatched
    /\ Cardinality(Holders(naive_parse(wire[1]))) >= 2
    /\ \A c \in Holders(naive_parse(wire[1])) : classes[c].bound
    /\ target = Len(classes)

\* C4 as stated: a class statement with a non-descriptor attribute at any
\* depth raises at declaration, a class declared without error has only
\* descriptors at every depth, and dispatch never returns a rejected class.
C4_RejectedNeverDispatched ==
    /\ \A c \in 1..Len(classes) :
          classes[c].bound <=> check_fields_recursive(Fields(classes, c))
    /\ (op = "declare" /\ ~classes[Len(classes)].bound) => err.kind = "TypeError"
    /\ (Dispatched /\ target # 0) => classes[target].bound

\* the letters-then-digits reading of a name, letters of either case
SplitsAt(name, k, letters) ==
    /\ k >= 1
    /\ k < Len(name)
    /\ AllIn(SubSeq(name, 1, k), letters)
    /\ AllIn(SubSeq(name, k + 1, Len(name)), Digit)

Identity(name, letters) ==
    IF \E k \in 1..Len(name) : SplitsAt(name, k, letters)
    THEN LET k == CHOOSE k \in 1..Len(name) : SplitsAt(name, k, letters)
         IN  [type |-> SubSeq(name, 1, k), version |-> int(SubSeq(name, k + 1, Len(name)))]
    ELSE [type |-> None, version |-> NoneInt]

\* names are fixed when a class is created: read after load and each declaration
NameDerived(letters) ==
    /\ op \in {"load", "declare"} =>
          \A c \in 1..Len(classes) :
              /\ TYPE(classes, c) = Identity(NameOf(c), letters).type
              /\ VERSION(classes, c) = Identity(NameOf(c), letters).version
    /\ (Dispatched /\ target # 0) => TYPE(classes, target) # None

\* C5 as stated: TYPE is the leading alphabetic run and VERSION the value of
\* the trailing digit run of every name made of letters followed by digits; any
\* other name has neither and is never dispatched to as a match.
C5_AnyLetters == NameDerived(Upper \cup Lower)

\* C5 amended: the same with the letters restricted to the upper-case A-Z; a
\* name holding a lower-case letter has no TYPE and no VERSION.
C5_UpperLetters ==
    /\ NameDerived(Upper)
    /\ op \in {"load", "declare"} =>
          /\ TYPE(classes, 7) = <<"H","I","R","M","G">> /\ VERSION(classes, 7) = 2
          /\ TYPE(classes, ParameterSegmentIndex) = None
          /\ VERSION(classes, ParameterSegmentIndex) = NoneInt
          /\ \A c \in 1..Len(classes) :
                NameOf(c) = <<"H","I","R","M","G","0","2">> => VERSION(classes, c) = 2

C5_Witness ==
    /\ \E c \in 1..Len(classes) : NameOf(c) = <<"Z","z","1">> /\ TYPE(classes, c) = None
    /\ \E c \in 1..Len(classes) : NameOf(c) = <<"H","I","R","M","G","0","2">>
    /\ Dispatched
    /\ naive_parse(wire[1]).type = <<"Z","z">>
    /\ target = 0

\* C10: a dispatch call, succeeding or failing on a malformed header, leaves
\* the registry as it was, and dispatching the same header again gives the
\* same outcome.
C10_DispatchPure ==
    [][(op' = "dispatch") =>
          /\ classes' = classes
          /\ (op = "dispatch") => (target' = target /\ err' = err)]_vars

C10_Witness ==
    /\ op = "dispatch"
    /\ err = Error("ParseError", "header")
    /\ Len(classes) > Len(Catalogue)

\* ------------------------------------------------ claims about segments
Constructed == op = "construct" /\ err = NoError

\* C6: a constructor call without a header keyword stores the header
\* (TYPE, unset number, VERSION) of the class, a call with one stores that
\* header; the header is the first stored field and the other fields follow in
\* declared order with the values given for them.
C6_Construct ==
    Constructed =>
        LET ds == Fields(classes, call.cls)
        IN  /\ seg.cls = call.cls
            /\ Len(seg.vals) = Len(ds)
            /\ ds[1].name = "header"
            /\ ~call.explicit =>
                  seg.vals[1] = <<[type |-> TYPE(classes, call.cls), number |-> NoneInt,
                                   version |-> VERSION(classes, call.cls),
                                   reference |-> NoneInt]>>
            /\ (~call.explicit /\ call.cls = 7) =>
                  /\ seg.vals[1][1].type = <<"H","I","R","M","G">>
                  /\ seg.vals[1][1].version = 2
            /\ call.explicit => seg.vals[1] = call.kwargs["header"]
            /\ \A i \in 2..Len(ds) :
                  seg.vals[i] = IF i - 1 <= Len(call.args) THEN call.args[i - 1]
                                ELSE IF ds[i].name \in DOMAIN call.kwargs
                                THEN call.kwargs[ds[i].name]
                                ELSE <<>>

C6_Witness ==
    /\ Constructed
    /\ call.explicit
    /\ call.cls = 1
    /\ seg.vals[1][1].type = <<"Z","Z","Z","Z">>
    /\ Len(call.args) = 1
    /\ seg.vals[2] = call.args[1]

\* the occurrences of responses a constructor call passes
GivenResponses ==
    IF "responses" \in DOMAIN call.kwargs THEN Len(call.kwargs["responses"])
    ELSE IF Len(call.args) >= 1 THEN Len(call.args[1]) ELSE 0

\* C8: constructing HIRMG2 or HIRMS2 (responses: min_count=1, max_count=99)
\* raises MissingFieldError with no occurrence and ValidationError with 100,
\* and succeeds with exactly 1 and with exactly 99 occurrences.
C8_Cardinality ==
    (op = "construct" /\ call.cls \in 1..Len(Catalogue)
       /\ NameOf(call.cls) \in {<<"H","I","R","M","G","2">>, <<"H","I","R","M","S","2">>})
    => /\ GivenResponses = 0 => err = Error("MissingFieldError", "responses")
       /\ GivenResponses = 100 => err = Error("ValidationError", "responses")
       /\ GivenResponses \in {1, 99} => (err = NoError /\ Len(seg.vals[2]) = GivenResponses)

C8_Witness ==
    /\ op = "construct"
    /\ call.cls \in 1..Len(Catalogue)
    /\ NameOf(call.cls) = <<"H","I","R","M","G","2">>
    /\ GivenResponses = 100
    /\ err = Error("ValidationError", "responses")

Lacks(i) == i > Len(wire) \/ wire[i] = <<>>

\* C9: parsing against a schema without repeated groups raises
\* MissingFieldError naming the first required descriptor that has no token
\* group, provided the groups before it parse; descriptors that are optional
\* and have no group are left unset and the parse succeeds.  For HNHBK3: no
\* dialogue_id group gives MissingFieldError naming dialogue_id, no
\* reference_message group gives a segment without reference_message.
C9_MissingField ==
    (op = "parse" /\ ~naive_parse_fails(wire[1])) =>
        LET c == find_subclass(classes, 0, wire)
            ds == Fields(classes, c)
            wrong == { i \in 1..Len(ds) :
                          \/ Lacks(i) /\ ds[i].required
                          \/ ~Lacks(i) /\ ~Matches(ds[i], wire[i]) }
        IN  /\ (\A i \in 1..Len(ds) : ~IsRepeated(ds[i])) =>
                  /\ \A i \in wrong :
                        (Lacks(i) /\ \A j \in wrong : j >= i)
                            => err = Error("MissingFieldError", ds[i].name)
                  /\ wrong = {} =>
                        /\ err = NoError
                        /\ \A i \in 1..Len(ds) : Lacks(i) => seg.vals[i] = <<>>
            /\ (c \in 1..Len(Catalogue) /\ NameOf(c) = <<"H","N","H","B","K","3">>) =>
                  /\ ((\A j \in 1..3 : j \notin wrong) /\ Lacks(4))
                        => err = Error("MissingFieldError", "dialogue_id")
                  /\ ((\A j \in 1..5 : j \notin wrong) /\ Lacks(6))
                        => (err = NoError /\ seg.cls = c /\ seg.vals[6] = <<>>)

C9_Witness ==
    /\ op = "parse"
    /\ Len(wire) = 5
    /\ ~naive_parse_fails(wire[1])
    /\ find_subclass(classes, 0, wire) \in 1..Len(Catalogue)
    /\ NameOf(find_subclass(classes, 0, wire)) = <<"H","N","H","B","K","3">>
    /\ wire[4] = <<>>
    /\ wire[5] # <<>>
    /\ err = Error("MissingFieldError", "dialogue_id")

\* a segment every descriptor of which, the header's included, is satisfied
ValidSeg(s) ==
    /\ s.cls \in 1..Len(classes)
    /\ TYPE(classes, s.cls) # None
    /\ Len(s.vals[1]) = 1
    /\ s.vals[1][1].type # None
    /\ Len(s.vals[1][1].type) \in 1..6
    /\ s.vals[1][1].number \in 0..999
    /\ s.vals[1][1].version \in 0..999
    /\ first_error(Fields(classes, s.cls), s.vals, 2) = NoError

RoundTripped == op = "parse" /\ sent # NoSeg /\ ValidSeg(sent)

\* C7 as stated: every valid segment of a schema with an identity comes back
\* equal from serialize then parse.
C7_AnyHeader == RoundTripped => (err = NoError /\ seg = sent)

\* the header names the segment's own class and no other scanned class
OwnHeader(s) ==
    /\ s.vals[1][1].type = TYPE(classes, s.cls)
    /\ s.vals[1][1].version = VERSION(classes, s.cls)
    /\ Holders(s.vals[1][1]) = {s.cls}

\* C7 amended: a valid segment whose header carries the TYPE and VERSION of
\* its own schema, no other scanned schema having that key, comes back equal
\* from serialize then parse; the groups are emitted in declaration order, one
\* position per single field.
C7_RoundTrip ==
    /\ (RoundTripped /\ OwnHeader(sent)) => (err = NoError /\ seg = sent)
    /\ (op = "serialize" /\ \A i \in 1..Len(sent.vals) : Len(sent.vals[i]) = 1) =>
          LET ds == Fields(classes, sent.cls)
          IN  /\ Len(wire) = Len(ds)
              /\ \A i \in 1..Len(ds) : wire[i] = serialize_value(ds[i], sent.vals[i][1])

C7_Witness ==
    /\ RoundTripped
    /\ OwnHeader(sent)
    /\ NameOf(sent.cls) = <<"H","I","U","P","D","6">>
    /\ sent.vals[2] = <<>>
    /\ Len(sent.vals[11]) = 2
    /\ sent.vals[12] # <<>>
    /\ ~call.explicit
    /\ seg = sent

====
